---- MODULE Spec2Model ----
(***************************************************************************)
(* Model of src/bot.py: an anonymous-submission Telegram bot.              *)
(*                                                                         *)
(* Two ConversationHandlers (submission_conv, broadcast_conv) and one      *)
(* CallbackQueryHandler (handle_admin_action) are registered in one        *)
(* handler group; for every update the first handler that accepts it runs  *)
(* and the others are not consulted.  Updates are processed one at a time  *)
(* (Application.concurrent_updates is off, every handler is blocking), so  *)
(* one action of the model is one whole handler run.  Every call to the    *)
(* Telegram gateway inside a handler may fail; the set of call sites that  *)
(* fail in a run is an input of the action.  A handler that ends with an   *)
(* exception leaves the conversation state of its ConversationHandler      *)
(* unchanged.                                                              *)
(*                                                                         *)
(* Conversations are those of private chats: the conversation key          *)
(* (chat id, user id) of a ConversationHandler is then given by the user.  *)
(***************************************************************************)
EXTENDS Integers, Sequences, FiniteSets, TLC

\* ---------------------------------------------------------------- bounds
\* A run of the bot is explored within a scope: the users that talk to the
\* bot (cast), the number of updates processed (events), the number of
\* gateway calls that fail (faults) and the number of operations on
\* users.json that fail (io).
SoloEvents == 7
SoloFaults == 2
SoloIo == 0
PairEvents == 5
PairFaults == 1
PairIo == 0
StoreEvents == 4
StoreFaults == 0
StoreIo == 2
RaceEvents == 4
RaceFaults == 1
RaceIo == 1
\* Number of messages the bot publishes to the channel in one run.
MaxPosts == 2

\* ------------------------------------------------------- program constants
SUBMITTING == 0
AWAITING_CONFIRMATION == 1
BROADCASTING == 2
\* ConversationHandler.END; also stands for "no conversation in flight".
END == -1

\* ------------------------------------------------------------ environment
\* TELEGRAM_ADMIN_CHAT_ID names the user with this id.
AdminId == 12
\* The users that talk to the bot: the admin, a user whose decimal id is
\* part of the admin's, and a user whose decimal id is not.
Users == {AdminId, 2, 5}
\* Texts a user may send (never empty, never a command).
Texts == {"t1", "t2"}
\* user.username of an update: a handle, or None.
Usernames == {"None", "handle"}
FirstNames == {"first"}
\* context.user_data.get("message_to_send") when the key is absent.
NoText == "NoText"
\* ChatMember.status values of the gateway; "raise" is a failed lookup.
MemberStatuses == {"member", "administrator", "creator"}
ChatMemberStatuses == MemberStatuses \cup {"restricted", "left", "kicked"}
Lookups == ChatMemberStatuses \cup {"raise"}
\* Outcomes of open(..., "w") + json.dump: written, open failed (file
\* untouched), or the write failed after the file was truncated.
SaveResults == {"ok", "open_failed", "write_failed"}
\* Outcomes of one delivery of bot.send_message in the fan-out loop.
SendResults == {"ok", "forbidden", "error"}
\* Outcomes of bot.delete_message / of the edit that follows it.
CallResults == {"ok", "bad_request", "error"}

\* ------------------------------------------------------------ conversions
\* str(n) for a natural number, as its sequence of decimal digits.
RECURSIVE Str(_)
Str(n) == IF n < 10 THEN <<n>> ELSE Append(Str(n \div 10), n % 10)

\* Python's "needle in hay" on strings: needle is a contiguous part of hay.
Contains(hay, needle) ==
    \E i \in 1..(Len(hay) - Len(needle) + 1) :
        SubSeq(hay, i, i + Len(needle) - 1) = needle

ADMIN_CHAT_ID == Str(AdminId)

\* The empty mapping {}.
EmptyMap == [k \in {} |-> "x"]

\* A dict as json.load returns it and json.dump writes it: the key/value
\* pairs in insertion order, which is the order of the file.
EmptyDict == <<>>

dict_keys(d) == {d[i][1] : i \in DOMAIN d}

\* d[key], for a key of d.
dict_get(d, key) == d[CHOOSE i \in DOMAIN d : d[i][1] = key][2]

\* d[key] = value: a new key goes last, a key of d keeps its place.
dict_set(d, key, value) ==
    IF key \in dict_keys(d)
    THEN [i \in DOMAIN d |-> IF d[i][1] = key THEN <<key, value>> ELSE d[i]]
    ELSE Append(d, <<key, value>>)

\* The keys of a dict in the order `for user_id in users` visits them.
KeySeq(d) == [i \in DOMAIN d |-> d[i][1]]

\* ------------------------------------------------------------------ state
VARIABLES
    submission_conv,  \* user -> state of the submission ConversationHandler
    broadcast_conv,   \* user -> state of the broadcast ConversationHandler
    user_data,        \* user -> context.user_data["message_to_send"], or NoText
    users_db,         \* the file users.json: [kind, data], data a dict in file order
    channel,          \* message id -> text, the messages now in the channel
    next_id,          \* message id the channel gives to the next post
    admin_notes,      \* message id -> text: admin notifications with a Delete control
    note_shows,       \* message id -> what the admin notification for it now shows
    scope,            \* the scope of this run (never changes)
    events,           \* number of updates processed so far
    faults,           \* number of failed gateway calls so far
    io_faults,        \* number of failed operations on users.json so far
    flow_text,        \* history: user -> text accepted in Submitting by the current flow
    flow_passed,      \* history: user -> the user's latest /start passed the membership check
    entry_posts,      \* history: user -> posts published since the user last entered AwaitingConfirmation
    running,          \* user -> the gateway call at which the user's start handler is suspended
    first_start,      \* history: user -> the registry entry of the user's first /start
    load_failed,      \* history: some load_json_data call took its except branch
    save_failed,      \* history: some save_json_data call failed
    last              \* history: the last handler run and what it did

vars == <<submission_conv, broadcast_conv, user_data, users_db, channel, next_id,
          admin_notes, note_shows, scope, events, faults, io_faults, flow_text,
          flow_passed, entry_posts, running, first_start, load_failed, save_failed, last>>

conv_vars == <<submission_conv, broadcast_conv, user_data, flow_text, flow_passed, entry_posts>>
post_vars == <<channel, next_id, admin_notes, note_shows>>
store_vars == <<users_db, first_start, load_failed, save_failed>>

\* A handler run that did nothing yet.
NoRun == [h |-> "none", u |-> 0, raised |-> FALSE, sent |-> <<>>, gate |-> "none",
          again |-> FALSE, saved |-> "none", m |-> 0, absent |-> FALSE, del |-> "none",
          n |-> 0, k |-> 0, attempts |-> 0, ok |-> 0, failed |-> 0, data |-> "none",
          trace |-> <<>>]

\* One update has been processed by a handler that ran to its end, during
\* which k gateway calls and j file operations failed.
Step(k, j) ==
    /\ running' = running
    /\ events < scope.events
    /\ faults + k <= scope.faults
    /\ io_faults + j <= scope.io
    /\ scope' = scope
    /\ events' = events + 1
    /\ faults' = faults + k
    /\ io_faults' = io_faults + j

Bit(b) == IF b THEN 1 ELSE 0

\* ------------------------------------------------------ persistence helpers
\* load_json_data: {} when the file is missing, unreadable or malformed.
load_json_data(file, io_error) ==
    IF file.kind = "missing" THEN EmptyDict
    ELSE IF io_error \/ file.kind = "malformed" THEN EmptyDict
    ELSE file.data

\* Whether load_json_data took its except branch.
load_raised(file, io_error) ==
    file.kind # "missing" /\ (io_error \/ file.kind = "malformed")

\* save_json_data: a full overwrite; a failure is logged and swallowed.
save_json_data(file, data, result) ==
    CASE result = "ok"           -> [kind |-> "ok", data |-> data]
      [] result = "open_failed"  -> file
      [] result = "write_failed" -> [kind |-> "malformed", data |-> EmptyDict]

Solo == [cast |-> {AdminId}, events |-> SoloEvents, faults |-> SoloFaults, io |-> SoloIo]
Pair == [cast |-> {AdminId, 2}, events |-> PairEvents, faults |-> PairFaults, io |-> PairIo]
Store == [cast |-> {AdminId, 2}, events |-> StoreEvents, faults |-> StoreFaults,
          io |-> StoreIo]
Race == [cast |-> {AdminId, 2}, events |-> RaceEvents, faults |-> RaceFaults, io |-> RaceIo]

InitIn(sc) ==
    /\ scope = sc
    /\ running = [u \in Users |-> "idle"]
    /\ submission_conv = [u \in Users |-> END]
    /\ broadcast_conv = [u \in Users |-> END]
    /\ user_data = [u \in Users |-> NoText]
    /\ users_db = [kind |-> "missing", data |-> EmptyDict]
    /\ channel = EmptyMap
    /\ next_id = 1
    /\ admin_notes = EmptyMap
    /\ note_shows = EmptyMap
    /\ events = 0
    /\ faults = 0
    /\ io_faults = 0
    /\ flow_text = [u \in Users |-> NoText]
    /\ flow_passed = [u \in Users |-> FALSE]
    /\ entry_posts = [u \in Users |-> 0]
    /\ first_start = EmptyMap
    /\ load_failed = FALSE
    /\ save_failed = FALSE
    /\ last = NoRun

\* ------------------------------------------------------------------ start
\* A membership test that lets a failed lookup through.
is_member_fail_open(lookup) == lookup \in MemberStatuses \cup {"raise"}

\* The membership test of start: the lookup returned and the status is one
\* of member, administrator, creator.
is_member(lookup) == lookup \in MemberStatuses

\* What start does after the registry step: the replies it delivers, the
\* outcome of the membership gate, the state it returns and the calls that
\* raised (hit).  fails is the set of its reply calls that raise if reached.
start_run(lookup, fails) ==
    IF "welcome" \in fails
    THEN [raised |-> TRUE, sent |-> <<>>, gate |-> "none", next |-> END,
          hit |-> {"welcome"}]
    ELSE LET member == is_member(lookup)
             gate == IF lookup = "raise" THEN "error"
                     ELSE IF lookup \in MemberStatuses THEN "pass" ELSE "not_member"
         IN  IF member /\ "prompt" \notin fails
             THEN [raised |-> FALSE, sent |-> <<"welcome", "prompt">>,
                   gate |-> gate, next |-> SUBMITTING, hit |-> {}]
             ELSE LET h1 == IF member THEN {"prompt"} ELSE {}
                  IN  IF "join" \in fails
                      THEN [raised |-> TRUE, sent |-> <<"welcome">>, gate |-> gate,
                            next |-> END, hit |-> h1 \cup {"join"}]
                      ELSE [raised |-> FALSE, sent |-> <<"welcome", "join">>,
                            gate |-> gate, next |-> END, hit |-> h1]

\* Whether the registry step of start writes the file.
start_saves(file, key, io_error) ==
    key \notin dict_keys(load_json_data(file, io_error))

\* A registry step that never records the user.
start_store_skip(file, key, entry, io_error, result) == file

\* A registry step that rewrites the user's entry on every /start.
start_store_overwrite(file, key, entry, io_error, result) ==
    save_json_data(file, dict_set(load_json_data(file, io_error), key, entry), result)

\* A registry step that writes the new user's entry alone.
start_store_replace(file, key, entry, io_error, result) ==
    IF key \notin dict_keys(load_json_data(file, io_error))
    THEN save_json_data(file, <<<<key, entry>>>>, result)
    ELSE file

\* The registry step of start: what users.json holds afterwards.
start_store(file, key, entry, io_error, result) ==
    LET users == load_json_data(file, io_error)
    IN  IF key \notin dict_keys(users)
        THEN save_json_data(file, dict_set(users, key, entry), result)
        ELSE file

\* /start, accepted by submission_conv's entry point when the user has no
\* submission conversation in flight.
start(u, username, io_error, result, lookup, fails) ==
    /\ submission_conv[u] = END
    /\ Step(Cardinality(fails) + Bit(lookup = "raise"),
            Bit(io_error) + Bit(result # "ok"))
    /\ LET entry == [username |-> username, first_name |-> CHOOSE f \in FirstNames : TRUE]
           r == start_run(lookup, fails)
       IN  /\ r.hit = fails
           /\ users_db' = start_store(users_db, Str(u), entry, io_error, result)
           /\ submission_conv' = [submission_conv EXCEPT ![u] = IF r.raised THEN @ ELSE r.next]
           /\ load_failed' = (load_failed \/ load_raised(users_db, io_error))
           /\ save_failed' = (save_failed \/ result # "ok")
           /\ first_start' = IF u \in DOMAIN first_start THEN first_start
                              ELSE first_start @@ (u :> entry)
           /\ flow_text' = [flow_text EXCEPT ![u] = NoText]
           /\ flow_passed' = [flow_passed EXCEPT ![u] = (r.gate = "pass")]
           /\ last' = [NoRun EXCEPT !.h = "start", !.u = u, !.raised = r.raised,
                                    !.sent = r.sent, !.gate = r.gate,
                                    !.again = (u \in DOMAIN first_start),
                                    !.saved = IF ~start_saves(users_db, Str(u), io_error)
                                              THEN "none"
                                              ELSE IF result = "ok" THEN "ok" ELSE "failed"]
    /\ UNCHANGED <<broadcast_conv, user_data, entry_posts>>
    /\ UNCHANGED post_vars

\* ------------------------------------------ start, suspended at its awaits
\* start when handlers of different users may run interleaved: a handler
\* runs without interruption up to a gateway call (await), where it is
\* suspended until the call returns or raises.  start_begin is the run from
\* the arrival of /start to the first gateway call, the welcome reply: it
\* holds the whole registry step, which has no await.
start_begin(u, username, io_error, result) ==
    /\ submission_conv[u] = END
    /\ running[u] = "idle"
    /\ events < scope.events
    /\ io_faults + Bit(io_error) + Bit(result # "ok") <= scope.io
    /\ LET entry == [username |-> username, first_name |-> CHOOSE f \in FirstNames : TRUE]
       IN  /\ users_db' = start_store(users_db, Str(u), entry, io_error, result)
           /\ load_failed' = (load_failed \/ load_raised(users_db, io_error))
           /\ save_failed' = (save_failed \/ result # "ok")
           /\ first_start' = IF u \in DOMAIN first_start THEN first_start
                              ELSE first_start @@ (u :> entry)
           /\ last' = [NoRun EXCEPT !.h = "start", !.u = u,
                                    !.again = (u \in DOMAIN first_start),
                                    !.saved = IF ~start_saves(users_db, Str(u), io_error)
                                              THEN "none"
                                              ELSE IF result = "ok" THEN "ok" ELSE "failed"]
    /\ running' = [running EXCEPT ![u] = "welcome"]
    /\ flow_text' = [flow_text EXCEPT ![u] = NoText]
    /\ flow_passed' = [flow_passed EXCEPT ![u] = FALSE]
    /\ events' = events + 1
    /\ io_faults' = io_faults + Bit(io_error) + Bit(result # "ok")
    /\ UNCHANGED <<scope, faults, submission_conv, broadcast_conv, user_data, entry_posts>>
    /\ UNCHANGED post_vars

\* Where start goes when the gateway call it is suspended at returns
\* (outcome "ok", or the member status for the lookup) or raises ("raise"):
\* the next call it is suspended at, or "idle" with the state it returns
\* (next) or with the exception leaving the handler (raised).
start_after(at, outcome) ==
    CASE at = "welcome" ->
           IF outcome = "raise" THEN [at |-> "idle", raised |-> TRUE, next |-> END]
           ELSE [at |-> "lookup", raised |-> FALSE, next |-> END]
      [] at = "lookup" ->
           IF is_member(outcome) THEN [at |-> "prompt", raised |-> FALSE, next |-> END]
           ELSE [at |-> "join", raised |-> FALSE, next |-> END]
      [] at = "prompt" ->
           IF outcome = "raise" THEN [at |-> "join", raised |-> FALSE, next |-> END]
           ELSE [at |-> "idle", raised |-> FALSE, next |-> SUBMITTING]
      [] at = "join" ->
           IF outcome = "raise" THEN [at |-> "idle", raised |-> TRUE, next |-> END]
           ELSE [at |-> "idle", raised |-> FALSE, next |-> END]

\* The gateway call at which the start handler of u is suspended returns or
\* raises, and the handler runs on to its next gateway call or to its end.
start_resume(u, outcome) ==
    /\ running[u] # "idle"
    /\ faults + Bit(outcome = "raise") <= scope.faults
    /\ LET r == start_after(running[u], outcome)
       IN  /\ running' = [running EXCEPT ![u] = r.at]
           /\ submission_conv' = [submission_conv EXCEPT ![u] = r.next]
           /\ flow_passed' = [flow_passed EXCEPT
                  ![u] = IF running[u] = "lookup" THEN outcome \in MemberStatuses ELSE @]
           /\ last' = [NoRun EXCEPT !.h = "start", !.u = u, !.raised = r.raised]
    /\ faults' = faults + Bit(outcome = "raise")
    /\ UNCHANGED <<scope, events, io_faults, broadcast_conv, user_data, flow_text, entry_posts>>
    /\ UNCHANGED post_vars
    /\ UNCHANGED store_vars

\* --------------------------------------------------------- handle_message
handle_message_run(fails) ==
    IF "confirm_prompt" \in fails
    THEN [raised |-> TRUE, sent |-> <<>>, next |-> SUBMITTING, hit |-> {"confirm_prompt"}]
    ELSE [raised |-> FALSE, sent |-> <<"confirm_prompt">>,
          next |-> AWAITING_CONFIRMATION, hit |-> {}]

\* A handler that keeps a text already held instead of replacing it.
held_text_keep(old, text) == IF old = NoText THEN text ELSE old

\* What handle_message leaves in context.user_data["message_to_send"].
held_text(old, text) == text

\* A handler that holds the text in one place shared by all users.
set_message_to_send_shared(data, u, text) == [x \in DOMAIN data |-> text]

\* context.user_data["message_to_send"] = message_text: user_data is the
\* mapping of the user the update comes from.
set_message_to_send(data, u, text) == [data EXCEPT ![u] = held_text(@, text)]

\* A text message that is not a command, accepted in SUBMITTING.
handle_message(u, text, fails) ==
    /\ submission_conv[u] = SUBMITTING
    /\ Step(Cardinality(fails), 0)
    /\ LET r == handle_message_run(fails)
       IN  /\ r.hit = fails
           /\ user_data' = set_message_to_send(user_data, u, text)
           /\ flow_text' = [flow_text EXCEPT ![u] = text]
           /\ entry_posts' = [entry_posts EXCEPT ![u] = IF r.raised THEN @ ELSE 0]
           /\ submission_conv' = [submission_conv EXCEPT ![u] = IF r.raised THEN @ ELSE r.next]
           /\ last' = [NoRun EXCEPT !.h = "handle_message", !.u = u, !.raised = r.raised,
                                    !.sent = r.sent]
    /\ UNCHANGED <<broadcast_conv, flow_passed>>
    /\ UNCHANGED post_vars
    /\ UNCHANGED store_vars

\* ---------------------------------------------------- handle_confirmation
\* The run of handle_confirmation on button data for held text message_text:
\* post (the text published, or NoText), note (whether the admin got the
\* notification with the Delete control), the notices shown to the submitter.
handle_confirmation_run(data, message_text, fails) ==
    LET base == [raised |-> FALSE, sent |-> <<>>, post |-> NoText, note |-> FALSE,
                 next |-> END, hit |-> {}]
        \* the except branch of the try block, entered after calls hit raised
        failure(b, h) ==
            IF "failure_notice" \in fails
            THEN [b EXCEPT !.raised = TRUE, !.hit = h \cup {"failure_notice"}]
            ELSE [b EXCEPT !.sent = Append(b.sent, "failure_notice"), !.hit = h]
    IN  IF "answer" \in fails THEN [base EXCEPT !.raised = TRUE, !.hit = {"answer"}]
        ELSE IF data = "confirm_post_yes" THEN
            IF message_text = NoText THEN
                IF "error_notice" \in fails
                THEN [base EXCEPT !.raised = TRUE, !.hit = {"error_notice"}]
                ELSE [base EXCEPT !.sent = <<"error_notice">>]
            ELSE IF "post" \in fails THEN failure(base, {"post"})
            ELSE LET b1 == [base EXCEPT !.post = message_text]
                 IN  IF "posted_notice" \in fails THEN failure(b1, {"posted_notice"})
                     ELSE LET b2 == [b1 EXCEPT !.sent = <<"posted_notice">>]
                          IN  IF "admin_note" \in fails THEN failure(b2, {"admin_note"})
                              ELSE [b2 EXCEPT !.note = TRUE]
        ELSE IF data = "confirm_post_no" THEN
            IF "cancel_notice" \in fails
            THEN [base EXCEPT !.raised = TRUE, !.hit = {"cancel_notice"}]
            ELSE [base EXCEPT !.sent = <<"cancel_notice">>]
        ELSE base

\* Button data that the pattern "^confirm_post_.*" lets through: the data of
\* the two buttons handle_message creates, and other data with that prefix
\* (a callback query need not carry the data of a button of its message).
ConfirmData == {"confirm_post_yes", "confirm_post_no", "confirm_post_other"}

\* A click on a confirmation button, accepted in AWAITING_CONFIRMATION.
handle_confirmation(u, data, fails) ==
    /\ submission_conv[u] = AWAITING_CONFIRMATION
    /\ Step(Cardinality(fails), 0)
    /\ LET r == handle_confirmation_run(data, user_data[u], fails)
           posted == r.post # NoText
       IN  /\ r.hit = fails
           /\ posted => next_id <= MaxPosts
           /\ channel' = IF posted THEN channel @@ (next_id :> r.post) ELSE channel
           /\ next_id' = IF posted THEN next_id + 1 ELSE next_id
           /\ admin_notes' = IF r.note THEN admin_notes @@ (next_id :> r.post) ELSE admin_notes
           /\ note_shows' = IF r.note THEN note_shows @@ (next_id :> "new_post") ELSE note_shows
           /\ submission_conv' = [submission_conv EXCEPT ![u] = IF r.raised THEN @ ELSE r.next]
           /\ flow_text' = [flow_text EXCEPT ![u] = IF r.raised THEN @ ELSE NoText]
           /\ entry_posts' = [entry_posts EXCEPT ![u] = IF posted THEN @ + 1 ELSE @]
           /\ last' = [NoRun EXCEPT !.h = "handle_confirmation", !.u = u,
                                    !.raised = r.raised, !.sent = r.sent,
                                    !.m = IF posted THEN next_id ELSE 0,
                                    !.data = data]
    /\ UNCHANGED <<broadcast_conv, user_data, flow_passed>>
    /\ UNCHANGED store_vars

\* ----------------------------------------------------------------- cancel
cancel_run(fails) ==
    IF "cancelled" \in fails
    THEN [raised |-> TRUE, sent |-> <<>>, next |-> END, hit |-> {"cancelled"}]
    ELSE [raised |-> FALSE, sent |-> <<"cancelled">>, next |-> END, hit |-> {}]

\* The conversation handler that takes a /cancel of user u: submission_conv
\* is asked first and takes it whenever u has a submission in flight.
cancel_target(sub, bc) ==
    IF sub # END THEN "submission"
    ELSE IF bc # END THEN "broadcast"
    ELSE "none"

\* /cancel, a fallback of both conversation handlers.
cancel(u, fails) ==
    /\ cancel_target(submission_conv[u], broadcast_conv[u]) # "none"
    /\ Step(Cardinality(fails), 0)
    /\ LET r == cancel_run(fails)
           t == cancel_target(submission_conv[u], broadcast_conv[u])
       IN  /\ r.hit = fails
           /\ submission_conv' = [submission_conv EXCEPT
                  ![u] = IF t = "submission" /\ ~r.raised THEN r.next ELSE @]
           /\ broadcast_conv' = [broadcast_conv EXCEPT
                  ![u] = IF t = "broadcast" /\ ~r.raised THEN r.next ELSE @]
           /\ flow_text' = [flow_text EXCEPT
                  ![u] = IF t = "submission" /\ ~r.raised THEN NoText ELSE @]
           /\ last' = [NoRun EXCEPT !.h = "cancel", !.u = u, !.raised = r.raised,
                                    !.sent = r.sent]
    /\ UNCHANGED <<user_data, flow_passed, entry_posts>>
    /\ UNCHANGED post_vars
    /\ UNCHANGED store_vars

\* ---------------------------------------------------- handle_admin_action
\* What stands for the text after "delete:" when int() rejects it.
BadId == -1
\* The ids a callback query "delete:<id>" may name: those the channel gives to
\* the posts of a run, whether published yet, still there, or not.
DeleteIds == 1..MaxPosts
\* A message of the bot that is not an admin notification.
NoNote == 0

\* The run of handle_admin_action on "delete:<id>": present says whether the
\* id is that of a message in the channel, shows what the message that
\* carries the clicked button shows now, del is the outcome of
\* int(message_id) and bot.delete_message ("value_error" when int() raises),
\* edit the outcome of the edit that reports the deletion.  The gateway
\* refuses (BadRequest) an edit that would leave the message as it is.
handle_admin_action_run(present, shows, del, edit, fails) ==
    LET base == [raised |-> FALSE, sent |-> <<>>, removed |-> FALSE, hit |-> {},
                 shows |-> shows]
        gone(b) ==
            IF shows = "gone_notice" THEN [b EXCEPT !.raised = TRUE]
            ELSE IF "gone_notice" \in fails
            THEN [b EXCEPT !.raised = TRUE, !.hit = {"gone_notice"}]
            ELSE [b EXCEPT !.sent = <<"gone_notice">>, !.shows = "gone_notice"]
        error(b) ==
            IF shows = "error_notice" THEN [b EXCEPT !.raised = TRUE]
            ELSE IF "error_notice" \in fails
            THEN [b EXCEPT !.raised = TRUE, !.hit = {"error_notice"}]
            ELSE [b EXCEPT !.sent = <<"error_notice">>, !.shows = "error_notice"]
    IN  IF "answer" \in fails THEN [base EXCEPT !.raised = TRUE, !.hit = {"answer"}]
        ELSE IF del = "ok" THEN
            LET b1 == [base EXCEPT !.removed = TRUE]
            IN  CASE edit = "ok" ->
                       [b1 EXCEPT !.sent = <<"deleted_notice">>, !.shows = "deleted_notice"]
                  [] edit = "bad_request" -> gone(b1)
                  [] edit = "error"       -> error(b1)
        ELSE IF del = "bad_request" THEN gone(base)
        ELSE error(base)

\* Outcomes the delete can have: int() rejects a text that is no number; a
\* message that is not in the channel cannot be deleted (BadRequest) unless
\* the call fails otherwise.
delete_results(message_id, present) ==
    IF message_id = BadId THEN {"value_error"}
    ELSE IF present THEN CallResults
    ELSE {"bad_request", "error"}

\* Outcomes of the edit that reports the deletion, made after a successful
\* delete.
edit_results(made) == IF made THEN CallResults ELSE {"ok"}

\* A callback query with data "delete:<message_id>" from user u, sent from
\* the admin notification for post note, or from another message of the bot
\* (NoNote).  The handler looks neither at the sender nor at the message.
handle_admin_action(u, message_id, note, del, edit, fails) ==
    /\ LET present == message_id \in DOMAIN channel
           tracked == note \in DOMAIN note_shows
           called == "answer" \notin fails /\ message_id # BadId
           r == handle_admin_action_run(present,
                                        IF tracked THEN note_shows[note] ELSE "other",
                                        del, edit, fails)
       IN  /\ r.hit = fails
           /\ Step(Cardinality(fails) + Bit(edit # "ok")
                   + Bit(called /\ (del = "error" \/ (present /\ del = "bad_request"))),
                   0)
           /\ channel' = IF r.removed
                         THEN [k \in DOMAIN channel \ {message_id} |-> channel[k]]
                         ELSE channel
           /\ note_shows' = IF tracked THEN [note_shows EXCEPT ![note] = r.shows]
                            ELSE note_shows
           /\ last' = [NoRun EXCEPT !.h = "handle_admin_action", !.u = u,
                                    !.raised = r.raised, !.sent = r.sent,
                                    !.m = message_id, !.absent = ~present,
                                    !.del = IF "answer" \in fails THEN "none" ELSE del]
    /\ UNCHANGED <<next_id, admin_notes>>
    /\ UNCHANGED conv_vars
    /\ UNCHANGED store_vars

\* -------------------------------------------------------- broadcast_start
\* The admin check of broadcast_start: str(user id) in ADMIN_CHAT_ID.
is_admin(user_id) == Contains(ADMIN_CHAT_ID, Str(user_id))

broadcast_start_run(admin, fails) ==
    IF ~admin
    THEN IF "denied" \in fails
         THEN [raised |-> TRUE, sent |-> <<>>, next |-> END, hit |-> {"denied"}]
         ELSE [raised |-> FALSE, sent |-> <<"denied">>, next |-> END, hit |-> {}]
    ELSE IF "broadcast_prompt" \in fails
         THEN [raised |-> TRUE, sent |-> <<>>, next |-> BROADCASTING,
               hit |-> {"broadcast_prompt"}]
         ELSE [raised |-> FALSE, sent |-> <<"broadcast_prompt">>, next |-> BROADCASTING,
               hit |-> {}]

\* /broadcast, accepted by broadcast_conv's entry point when the user has no
\* broadcast conversation in flight (submission_conv never takes it).
broadcast_start(u, fails) ==
    /\ broadcast_conv[u] = END
    /\ Step(Cardinality(fails), 0)
    /\ LET r == broadcast_start_run(is_admin(u), fails)
       IN  /\ r.hit = fails
           /\ broadcast_conv' = [broadcast_conv EXCEPT ![u] = IF r.raised THEN @ ELSE r.next]
           /\ last' = [NoRun EXCEPT !.h = "broadcast_start", !.u = u, !.raised = r.raised,
                                    !.sent = r.sent]
    /\ UNCHANGED <<submission_conv, user_data, flow_text, flow_passed, entry_posts>>
    /\ UNCHANGED post_vars
    /\ UNCHANGED store_vars

\* ------------------------------------------------------ broadcast_message
\* The fan-out loop over the keys of the snapshot: results gives the outcome
\* of the send to each key; acc holds the attempts made, the two counters and
\* the trace of the loop's steps: "send" for a send attempt, "sleep" for the
\* asyncio.sleep that follows a send that returned.
RECURSIVE fan_out(_, _, _)
fan_out(keys, results, acc) ==
    IF keys = <<>> THEN acc
    ELSE LET r == results[Head(keys)]
             a1 == [acc EXCEPT !.attempts = @ + 1]
         IN  fan_out(Tail(keys), results,
                     IF r = "ok"
                     THEN [a1 EXCEPT !.ok = @ + 1, !.trace = @ \o <<"send", "sleep">>]
                     ELSE [a1 EXCEPT !.failed = @ + 1, !.trace = Append(@, "send")])

broadcast_message_run(users, results, fails) ==
    LET base == [raised |-> FALSE, sent |-> <<>>, next |-> END, hit |-> {},
                 n |-> Len(users), attempts |-> 0, ok |-> 0, failed |-> 0,
                 trace |-> <<>>]
    IN  IF "starting" \in fails THEN [base EXCEPT !.raised = TRUE, !.hit = {"starting"}]
        ELSE LET t == fan_out(KeySeq(users), results,
                              [attempts |-> 0, ok |-> 0, failed |-> 0, trace |-> <<>>])
                 b1 == [base EXCEPT !.attempts = t.attempts, !.ok = t.ok,
                                    !.failed = t.failed, !.trace = t.trace,
                                    !.sent = <<"starting">>]
             IN  IF "tally" \in fails THEN [b1 EXCEPT !.raised = TRUE, !.hit = {"tally"}]
                 ELSE [b1 EXCEPT !.sent = <<"starting", "tally">>]

\* A text message that is not a command, accepted in BROADCASTING (when
\* submission_conv, asked first, does not take it).
broadcast_message(u, text, io_error, results, fails) ==
    /\ submission_conv[u] # SUBMITTING
    /\ broadcast_conv[u] = BROADCASTING
    /\ LET users == load_json_data(users_db, io_error)
           r == broadcast_message_run(users, results, fails)
       IN  /\ r.hit = fails
           /\ Step(Cardinality(fails)
                   + (IF "starting" \in fails THEN 0
                      ELSE Cardinality({k \in dict_keys(users) : results[k] # "ok"})),
                   Bit(io_error))
           /\ load_failed' = (load_failed \/ load_raised(users_db, io_error))
           /\ broadcast_conv' = [broadcast_conv EXCEPT ![u] = IF r.raised THEN @ ELSE r.next]
           /\ last' = [NoRun EXCEPT !.h = "broadcast_message", !.u = u, !.raised = r.raised,
                                    !.sent = r.sent, !.n = r.n, !.attempts = r.attempts,
                                    !.ok = r.ok, !.failed = r.failed, !.trace = r.trace,
                                    !.k = Cardinality({x \in dict_keys(users) : results[x] # "ok"})]
    /\ UNCHANGED <<submission_conv, user_data, flow_text, flow_passed, entry_posts>>
    /\ UNCHANGED <<users_db, first_start, save_failed>>
    /\ UNCHANGED post_vars

\* -------------------------------------------------------------- dispatch
UpdateKinds == {"/start", "/cancel", "/broadcast", "text", "confirm_post_yes",
                "confirm_post_no"}

\* Whether one of the handlers registered in main accepts an update of this
\* kind from a user whose conversations are in states sub and bc.
accepted(kind, sub, bc) ==
    CASE kind = "/start"     -> sub = END
      [] kind = "/cancel"    -> cancel_target(sub, bc) # "none"
      [] kind = "/broadcast" -> bc = END
      [] kind = "text"       -> sub = SUBMITTING \/ bc = BROADCASTING
      [] OTHER               -> sub = AWAITING_CONFIRMATION

\* An update that no handler accepts: nothing runs.
unhandled(u, kind) ==
    /\ ~accepted(kind, submission_conv[u], broadcast_conv[u])
    /\ Step(0, 0)
    /\ last' = [NoRun EXCEPT !.h = "unhandled", !.u = u]
    /\ UNCHANGED conv_vars
    /\ UNCHANGED post_vars
    /\ UNCHANGED store_vars

\* ----------------------------------------------------------------- events
\* The sets of reply calls that can raise together in one run of a handler.
StartFails == {{}, {"welcome"}, {"join"}, {"prompt"}, {"prompt", "join"}}
ConfirmFails == {{}, {"answer"}, {"error_notice"}, {"cancel_notice"}, {"post"},
                 {"posted_notice"}, {"admin_note"}, {"post", "failure_notice"},
                 {"posted_notice", "failure_notice"}, {"admin_note", "failure_notice"}}
DeleteFails == {{}, {"answer"}, {"gone_notice"}, {"error_notice"}}
BroadcastFails == {{}, {"starting"}, {"tally"}}

\* IOError outcomes a read of users.json can have (none when it is missing).
read_errors(file) == IF file.kind = "ok" THEN BOOLEAN ELSE {FALSE}

\* Outcomes of a call that is made only when reached: one placeholder
\* outcome stands for "not made".
save_results(made) == IF made THEN SaveResults ELSE {"ok"}
lookups(made) == IF made THEN Lookups ELSE {"member"}

StartEvent ==
    \E u \in scope.cast :
      /\ submission_conv[u] = END
      /\ \E io_error \in read_errors(users_db) :
           \E fails \in StartFails :
             \E result \in save_results(start_saves(users_db, Str(u), io_error)),
                username \in Usernames, lookup \in lookups("welcome" \notin fails) :
                 start(u, username, io_error, result, lookup, fails)

TextEvent ==
    \E u \in scope.cast :
      /\ submission_conv[u] = SUBMITTING
      /\ \E text \in Texts, fails \in {{}, {"confirm_prompt"}} :
             handle_message(u, text, fails)

ConfirmEvent ==
    \E u \in scope.cast :
      /\ submission_conv[u] = AWAITING_CONFIRMATION
      /\ \E data \in ConfirmData, fails \in ConfirmFails :
             handle_confirmation(u, data, fails)

CancelEvent ==
    \E u \in scope.cast, fails \in {{}, {"cancelled"}} : cancel(u, fails)

DeleteEvent ==
    \E u \in scope.cast, message_id \in DeleteIds \cup {BadId},
       note \in DOMAIN admin_notes \cup {NoNote}, fails \in DeleteFails :
      \E del \in (IF "answer" \in fails THEN {"bad_request"}
                  ELSE delete_results(message_id, message_id \in DOMAIN channel)) :
        \E edit \in edit_results("answer" \notin fails /\ del = "ok") :
            handle_admin_action(u, message_id, note, del, edit, fails)

BroadcastEvent ==
    \E u \in scope.cast, fails \in {{}, {"denied"}, {"broadcast_prompt"}} :
        broadcast_start(u, fails)

BroadcastTextEvent ==
    \E u \in scope.cast :
      /\ broadcast_conv[u] = BROADCASTING
      /\ \E text \in Texts, io_error \in read_errors(users_db) :
           \E results \in [dict_keys(load_json_data(users_db, io_error)) -> SendResults],
              fails \in BroadcastFails :
               broadcast_message(u, text, io_error, results, fails)

UnhandledEvent ==
    \E u \in scope.cast, kind \in UpdateKinds : unhandled(u, kind)

StartBeginEvent ==
    \E u \in scope.cast :
      /\ submission_conv[u] = END /\ running[u] = "idle"
      /\ \E io_error \in read_errors(users_db) :
           \E result \in save_results(start_saves(users_db, Str(u), io_error)),
              username \in Usernames :
               start_begin(u, username, io_error, result)

StartResumeEvent ==
    \E u \in scope.cast :
      /\ running[u] # "idle"
      /\ \E outcome \in (IF running[u] = "lookup" THEN Lookups ELSE {"ok", "raise"}) :
             start_resume(u, outcome)

Next ==
    \/ StartEvent
    \/ TextEvent
    \/ ConfirmEvent
    \/ CancelEvent
    \/ DeleteEvent
    \/ BroadcastEvent
    \/ BroadcastTextEvent
    \/ UnhandledEvent

Spec == (\E u \in Users : InitIn([Solo EXCEPT !.cast = {u}])) /\ [][Next]_vars
SpecPair == InitIn(Pair) /\ [][Next]_vars
SpecStore == InitIn(Store) /\ [][Next]_vars

\* The /start handlers of the users, interleaved at their gateway calls.
NextRace ==
    \/ StartBeginEvent
    \/ StartResumeEvent

SpecRace == InitIn(Race) /\ [][NextRace]_vars

\* ----------------------------------------------------------------- claims
\* What a load of users.json that meets no IOError returns.
registry ==
    LET d == load_json_data(users_db, FALSE)
    IN  [key \in dict_keys(d) |-> dict_get(d, key)]

\* The registry holds exactly the users that issued /start, each with the
\* entry of their first /start.
Registered ==
    /\ DOMAIN registry = {Str(u) : u \in DOMAIN first_start}
    /\ \A u \in DOMAIN first_start : registry[Str(u)] = first_start[u]

\* C1: a Delete of the admin for a published message that is already gone from the channel
\* (the gateway answers the delete with BadRequest) leaves the channel
\* alone, reports that the message was already gone and the handler
\* completes without failing.
C1_DeleteTwice ==
    (/\ last.h = "handle_admin_action" /\ last.u = AdminId
     /\ last.m \in 1..(next_id - 1)
     /\ last.absent /\ last.del = "bad_request") =>
        /\ last.m \notin DOMAIN channel
        /\ ~last.raised
        /\ last.sent = <<"gone_notice">>

\* C2 as stated: as long as every write of users.json has succeeded, the
\* registry holds exactly one entry for every user that issued /start, and
\* it is the entry of that user's first /start.
C2_Original == ~save_failed => Registered

\* C2 amended: as long as every read and every write of users.json has
\* succeeded, the registry holds exactly one entry for every user that
\* issued /start, and it is the entry of that user's first /start.
C2_IdempotentUpsert == (~save_failed /\ ~load_failed) => Registered

\* A repeated /start has been processed with every file operation succeeding.
C2_Witness ==
    /\ ~save_failed /\ ~load_failed
    /\ last.h = "start" /\ last.again /\ last.saved = "none"
    /\ Cardinality(DOMAIN registry) = 2

\* C3: when the membership lookup of /start raises or returns a status other
\* than member/administrator/creator, the user receives the join prompt, the
\* submission flow is terminal and the user does not enter Submitting.
C3_FailClosed ==
    (last.h = "start" /\ last.gate \in {"not_member", "error"}) =>
        /\ last.sent = <<"welcome", "join">>
        /\ submission_conv[last.u] = END

\* C4: a broadcast over a snapshot of n users of which k fail delivery makes
\* exactly n send attempts and reports the tally of n - k successes and k
\* failures.
C4_Tally ==
    last.h = "broadcast_message" =>
        /\ last.attempts = last.n
        /\ last.failed = last.k
        /\ last.ok = last.n - last.k
        /\ last.sent = <<"starting", "tally">>

\* C5: a user whose id is not the admin's never reaches Broadcasting and
\* never triggers a fan-out.
C5_AdminGuard ==
    \A u \in Users \ {AdminId} :
        /\ broadcast_conv[u] # BROADCASTING
        /\ ~(last.h = "broadcast_message" /\ last.u = u)

\* C6: after a /cancel of a user has been processed, no flow of that user is
\* left in a non-terminal state (stated for the admin, and for a cancel
\* handler that returned).
C6_CancelEndsAll ==
    (last.h = "cancel" /\ last.u = AdminId /\ ~last.raised) =>
        /\ submission_conv[last.u] = END
        /\ broadcast_conv[last.u] = END

\* C7: whenever a user's submission flow is terminal, the user's context
\* holds no composition text.
C7_ContextCleared ==
    \A u \in Users : submission_conv[u] = END => user_data[u] = NoText

\* C8: every message published to the channel carries the text its
\* submitter sent in the Submitting step of the flow the Confirm belongs to.
C8_NoStaleContent ==
    [][next_id' # next_id =>
          /\ last'.h = "handle_confirmation"
          /\ flow_text[last'.u] \in Texts
          /\ channel'[next_id] = flow_text[last'.u]]_vars

\* A user has published a second message, in a later flow, with another text
\* than the one held from the earlier flow.
C8_Witness ==
    /\ last.h = "handle_confirmation" /\ last.m = 2
    /\ Cardinality(scope.cast) = 1
    /\ DOMAIN channel = {1, 2}
    /\ channel[1] # channel[2]

\* C9 as stated: a /start whose membership check fails leaves the registry
\* unchanged.
C9_Original ==
    [][(events' # events /\ last'.h = "start" /\ last'.gate \in {"not_member", "error"})
          => users_db' = users_db]_vars

\* C9 amended: every /start records the user, whatever the outcome of its
\* membership check (unless the write fails), and only /start records users:
\* every registered user issued /start.
C9_RecordedBeforeGate ==
    /\ (last.h = "start" /\ last.saved # "failed") => Str(last.u) \in DOMAIN registry
    /\ DOMAIN registry \subseteq {Str(u) : u \in DOMAIN first_start}

\* A /start whose membership check failed has recorded the user.
C9_Witness ==
    /\ last.h = "start" /\ last.gate \in {"not_member", "error"}
    /\ last.saved = "ok"
    /\ Str(last.u) \in DOMAIN registry

\* C10: whenever handle_confirmation has finished after publishing message m,
\* the admin has a notification with the submitted text and a Delete control
\* for m.
C10_DeleteControl ==
    (last.h = "handle_confirmation" /\ last.m # 0) =>
        /\ last.m \in DOMAIN admin_notes
        /\ admin_notes[last.m] = channel[last.m]

\* C11 as stated: a user id that is in the persisted registry is in it in
\* every later state, also across loads that fail or find malformed content.
C11_Original == [][DOMAIN registry \subseteq DOMAIN registry']_vars

\* C11 amended: as long as every load and every write of users.json has
\* succeeded, a user id that is in the persisted registry stays in it.
C11_GrowsWhileSound ==
    [][(~load_failed' /\ ~save_failed') => DOMAIN registry \subseteq DOMAIN registry']_vars

\* A second user has been added to the registry with every file operation
\* succeeding.
C11_Witness ==
    /\ ~save_failed /\ ~load_failed
    /\ last.h = "start" /\ last.saved = "ok" /\ ~last.again
    /\ Cardinality(DOMAIN registry) = 2

\* C12: no handler run ends with an unhandled gateway error.
C12_NoUnhandledError == ~last.raised

\* C13: a step changes the flow states and the held text of no user other
\* than the one whose event is processed, and a text published by a Confirm
\* of user A is the text A sent.
C13_Isolation ==
    [][events' # events =>
          /\ \A u \in Users \ {last'.u} :
                /\ submission_conv'[u] = submission_conv[u]
                /\ broadcast_conv'[u] = broadcast_conv[u]
                /\ user_data'[u] = user_data[u]
          /\ next_id' # next_id => channel'[next_id] = flow_text[last'.u]]_vars

\* A user has published their text while another user is waiting to confirm
\* a different text.
C13_Witness ==
    /\ last.h = "handle_confirmation" /\ last.m # 0
    /\ \E v \in Users \ {last.u} :
          /\ submission_conv[v] = AWAITING_CONFIRMATION
          /\ user_data[v] \in Texts
          /\ user_data[v] # channel[last.m]

\* C14: while a user is in AwaitingConfirmation, an event of that user other
\* than the Confirm button, the Cancel button and /cancel leaves the user's
\* submission state and held text unchanged and publishes nothing.
C14_OnlyConfirmOrCancel ==
    [][(/\ events' # events
        /\ submission_conv[last'.u] = AWAITING_CONFIRMATION
        /\ last'.h # "cancel"
        /\ ~(last'.h = "handle_confirmation"
              /\ last'.data \in {"confirm_post_yes", "confirm_post_no"}))
          => /\ submission_conv'[last'.u] = AWAITING_CONFIRMATION
             /\ user_data' = user_data
             /\ next_id' = next_id]_vars

\* C15: for each entry of a user into AwaitingConfirmation at most one
\* message is published, however many Confirm clicks follow.
C15_OnePostPerEntry == \A u \in Users : entry_posts[u] <= 1

\* C16: in the fan-out loop a pacing delay lies between every two
\* consecutive send attempts, whether the earlier one succeeded or failed.
C16_PacedSends ==
    last.h = "broadcast_message" =>
        \A i \in 1..(Len(last.trace) - 1) :
            last.trace[i] = "send" => last.trace[i + 1] = "sleep"

\* C17: a broadcast text of a user in Broadcasting completes: the tally is
\* reported after one send attempt per snapshot user and the user's
\* broadcast flow is terminal.
C17_BroadcastCompletes ==
    last.h = "broadcast_message" =>
        /\ last.sent = <<"starting", "tally">>
        /\ last.attempts = last.n
        /\ broadcast_conv[last.u] = END

\* C18: if handle_confirmation leaves the submitter with the failure notice,
\* no message of the submission is in the channel; if it leaves the success
\* notice, exactly one is.
C18_NoticeAgrees ==
    last.h = "handle_confirmation" =>
        /\ (Len(last.sent) > 0 /\ last.sent[Len(last.sent)] = "failure_notice")
              => last.m = 0
        /\ (Len(last.sent) > 0 /\ last.sent[Len(last.sent)] = "posted_notice")
              => (last.m # 0 /\ entry_posts[last.u] = 1)

\* C20: every step that publishes to the channel is a Confirm click of a
\* user in AwaitingConfirmation whose current flow began with a /start that
\* passed the membership check and went on with a text accepted in
\* Submitting; nothing else publishes.
C20_PublicationOrder ==
    [][next_id' # next_id =>
          /\ last'.h = "handle_confirmation"
          /\ last'.data = "confirm_post_yes"
          /\ submission_conv[last'.u] = AWAITING_CONFIRMATION
          /\ flow_passed[last'.u]
          /\ flow_text[last'.u] \in Texts]_vars

\* A Confirm has published the first message and the admin has been notified.
C20_Witness ==
    /\ last.h = "handle_confirmation" /\ last.data = "confirm_post_yes"
    /\ last.m = 1 /\ last.m \in DOMAIN admin_notes
    /\ flow_passed[last.u]
    /\ channel[1] \in Texts

\* C19 as stated: however the /start handlers of different users interleave
\* at their gateway calls, as long as every write of users.json has
\* succeeded every user that issued /start is in the persisted registry.
C19_Original == ~save_failed => \A u \in DOMAIN first_start : Str(u) \in DOMAIN registry

\* C19 amended: however the /start handlers of different users interleave
\* at their gateway calls, as long as every load and every write of
\* users.json has succeeded every user that issued /start is in the
\* persisted registry.
C19_NoLostUpdate ==
    (~save_failed /\ ~load_failed) =>
        \A u \in DOMAIN first_start : Str(u) \in DOMAIN registry

\* The start handlers of two users are suspended at gateway calls at the
\* same time, and both users are in the registry.
C19_Witness ==
    /\ ~save_failed /\ ~load_failed
    /\ \E u, v \in Users :
          /\ u # v
          /\ running[u] = "lookup" /\ running[v] = "welcome"
          /\ {Str(u), Str(v)} \subseteq DOMAIN registry

====
